---- MODULE Spec2Model ----
(***************************************************************************)
(* Model of BybitAccountDataUpdateCoordinator                              *)
(* (custom_components/bybit_account/coordinator.py): the rate-limit        *)
(* backoff state, one fetch cycle (_async_update_data) split at its await  *)
(* points, the aggregation of the two responses into the published data,   *)
(* and the reconfiguration entry point update_scan_interval.               *)
(*                                                                         *)
(* Strings that the code searches (retMsg) are sequences of tokens; an     *)
(* absent value (None, no header, no data yet) is the empty sequence and a *)
(* present one a one-element sequence.  Decimal texts are parsed to tenths.*)
(***************************************************************************)
EXTENDS Integers, Sequences, FiniteSets, TLC

VARIABLES
    scan_interval,          \* self.scan_interval
    _original_interval,     \* self._original_interval
    update_interval,        \* self.update_interval, in seconds
    _backoff_delay,         \* self._backoff_delay
    _consecutive_failures,  \* self._consecutive_failures
    _rate_limit_warnings,   \* self._rate_limit_warnings
    data,                   \* coordinator.data: <<>> or <<snapshot>>
    pc,                     \* per invocation of _async_update_data: its await point
    positions_response,     \* per invocation: the local positions_response
    trace,                  \* per invocation: the awaits it has started so far
    outcome,                \* how the last finished invocation ended
    excRun,                 \* history: length of the current run of Exceeded cycles
    reported,               \* history: per cause of failure, the exception type raised
    last_request,           \* history: <<n>> right after update_scan_interval(n)
    reconfigured,           \* history: per invocation, update_scan_interval ran during it
    flow,                   \* the config flow: its step, its errors, the last validation
    shutdown                \* the host has been asked to stop

vars == <<scan_interval, _original_interval, update_interval, _backoff_delay,
          _consecutive_failures, _rate_limit_warnings, data, pc,
          positions_response, trace, outcome, excRun, reported, last_request,
          reconfigured, flow, shutdown>>

\* the coordinator, which the config flow does not touch
coordinatorVars ==
    <<scan_interval, _original_interval, update_interval, _backoff_delay,
      _consecutive_failures, _rate_limit_warnings, data, pc,
      positions_response, trace, outcome, excRun, reported, last_request,
      reconfigured, shutdown>>

backoffVars == <<_backoff_delay, _consecutive_failures, update_interval>>

----------------------------------------------------------------------------
(* Bounds of the model *)

\* rate-limit errors are injected only while fewer than this many are counted
MaxFailures == 6
\* near-limit headers are injected only while fewer than this many are counted
MaxWarnings == 2
MaxPositions == 2

(* Program constants *)
DEFAULT_SCAN_INTERVAL == 60
RATE_LIMIT_RET_CODE == 10006
MIN_SCAN_INTERVAL == 5
MAX_SCAN_INTERVAL == 3600

\* the polling intervals the options may hold: the default and one above 300 s
Intervals == {DEFAULT_SCAN_INTERVAL, 400}

\* the two ways the host invokes _async_update_data
Slots == {"timer", "manual"}

Min(a, b) == IF a < b THEN a ELSE b
Max(a, b) == IF a > b THEN a ELSE b

----------------------------------------------------------------------------
(* Responses of the remote API *)

TooManyVisits == <<"Too", "many", "visits">>

\* Python's `needle in text` on token sequences: a contiguous occurrence
Contains(text, needle) ==
    \E i \in 0..(Len(text) - Len(needle)) :
        \A j \in 1..Len(needle) : text[i + j] = needle[j]

P1 == [symbol |-> "BTCUSDT", unrealisedPnl |-> "12.5"]
P2 == [symbol |-> "ETHUSDT", unrealisedPnl |-> ""]
P3 == [symbol |-> "SOLUSDT"]

UsdtEntry == [coin |-> "USDT", totalEquity |-> "1000.0",
              availableToWithdraw |-> "800.0", walletBalance |-> "900.0"]
BtcEntry == [coin |-> "BTC", totalEquity |-> "2.0",
             availableToWithdraw |-> "1.0", walletBalance |-> "2.0"]

OkResponse(list) == [retCode |-> 0, retMsg |-> <<"OK">>, list |-> list]
DegradedResponse == [retCode |-> 10001, retMsg |-> <<"params", "error">>, list |-> <<>>]
LimitedByCode == [retCode |-> RATE_LIMIT_RET_CODE, retMsg |-> <<"rate", "limited">>, list |-> <<>>]
LimitedByMsg == [retCode |-> 10001, retMsg |-> <<"Too", "many", "visits", "!">>, list |-> <<>>]

\* a response the aggregation absorbs: an error status without the rate-limit
\* code and without the rate-limit text
Degraded(response) ==
    /\ response.retCode # 0
    /\ response.retCode # RATE_LIMIT_RET_CODE
    /\ \A i \in 1..(Len(response.retMsg) - 2) :
          SubSeq(response.retMsg, i, i + 2) # TooManyVisits

Absorbable(response) == IF Degraded(response) THEN <<response>> ELSE <<>>

PositionsResponses ==
    {OkResponse(<<P1, P2, P3>>), DegradedResponse, LimitedByCode, LimitedByMsg}

BalanceResponses ==
    {OkResponse(<<BtcEntry, UsdtEntry>>), DegradedResponse, LimitedByCode, LimitedByMsg}

\* richer payloads for the aggregation: every list of at most MaxPositions
\* positions with a positive, negative or non-numeric PnL field besides the
\* list with an empty and a missing field, wallet lists with and without a
\* USDT entry, and error statuses that still carry a payload
P4 == [symbol |-> "XRPUSDT", unrealisedPnl |-> "-3.0"]
P5 == [symbol |-> "ADAUSDT", unrealisedPnl |-> "abc"]

PositionLists ==
    UNION {[1..n -> {P1, P4, P5}] : n \in 0..MaxPositions} \cup {<<P1, P2, P3>>}

UsdtPartial == [coin |-> "USDT", walletBalance |-> "5.0"]

BalanceLists ==
    {<<>>, <<BtcEntry>>, <<BtcEntry, UsdtEntry>>, <<UsdtEntry, BtcEntry>>,
     <<UsdtPartial, UsdtEntry>>}

DegradedWith(list) == [DegradedResponse EXCEPT !.list = list]

AggPositionsResponses ==
    {OkResponse(l) : l \in PositionLists}
        \cup {DegradedResponse, DegradedWith(<<P1>>), LimitedByCode}

AggBalanceResponses ==
    {OkResponse(l) : l \in BalanceLists}
        \cup {DegradedResponse, DegradedWith(<<UsdtEntry>>), LimitedByCode}

\* X-Bapi-Limit-Status of a response: absent, or the remaining quota
CycleHeaders == {<<>>, <<3>>}

NetworkError == [type |-> "ConnectionError", msg |-> <<"connection", "reset">>, from |-> ""]
Errors == {NetworkError}

----------------------------------------------------------------------------
(* Backoff controller *)

\* the test of _handle_rate_limit_error
IsRateLimited(response) ==
    \/ response.retCode = RATE_LIMIT_RET_CODE
    \/ Contains(response.retMsg, TooManyVisits)

\* variant: the exponential delay without its cap
BackoffDelayUncapped(failures) == 2 ^ failures

BackoffDelayFor(failures) == Min(2 ^ failures, 60)

EmergencyInterval(original) == Max(original * 4, 300)

\* variant: the delay is computed from the count before its increment
BackoffFromOldCount ==
    /\ _consecutive_failures' = _consecutive_failures + 1
    /\ _backoff_delay' = BackoffDelayFor(_consecutive_failures)
    /\ update_interval' = EmergencyInterval(_original_interval)

\* the state change of _handle_rate_limit_error on a rate-limited response
_handle_rate_limit_error ==
    /\ _consecutive_failures' = _consecutive_failures + 1
    /\ _backoff_delay' = BackoffDelayFor(_consecutive_failures + 1)
    /\ update_interval' = EmergencyInterval(_original_interval)

\* variant: the success reset clears the failure count and keeps the delay
ResetKeepingDelay ==
    IF _consecutive_failures > 0
    THEN /\ _consecutive_failures' = 0
         /\ UNCHANGED <<_backoff_delay, update_interval>>
    ELSE UNCHANGED backoffVars

_reset_backoff_on_success ==
    IF _consecutive_failures > 0
    THEN /\ _consecutive_failures' = 0
         /\ _backoff_delay' = 0
         /\ IF scan_interval # _original_interval
            THEN update_interval' = _original_interval
            ELSE UNCHANGED update_interval
    ELSE UNCHANGED backoffVars

----------------------------------------------------------------------------
(* Aggregation of the two responses *)

Get(dict, key, default) == IF key \in DOMAIN dict THEN dict[key] ELSE default

\* float(text) on the texts the responses carry: <<tenths>> or <<>> for ValueError
Float(text) ==
    CASE text = "12.5" -> <<125>>
      [] text = "0" -> <<0>>
      [] text = "-3.0" -> <<-30>>
      [] OTHER -> <<>>

\* variant: the first field that does not parse ends the sum
RECURSIVE TotalUntilUnparsable(_)
TotalUntilUnparsable(positions) ==
    IF positions = <<>> THEN 0
    ELSE LET parsed == Float(Get(Head(positions), "unrealisedPnl", "0"))
         IN  IF parsed = <<>> THEN 0
             ELSE parsed[1] + TotalUntilUnparsable(Tail(positions))

RECURSIVE TotalUnrealisedPnl(_)
TotalUnrealisedPnl(positions) ==
    IF positions = <<>> THEN 0
    ELSE LET parsed == Float(Get(Head(positions), "unrealisedPnl", "0"))
             rest == TotalUnrealisedPnl(Tail(positions))
         IN  IF parsed = <<>> THEN rest ELSE parsed[1] + rest

\* variant: the list is taken whatever the status
PositionsIgnoringStatus(response) == response.list

PositionsOf(response) == IF response.retCode = 0 THEN response.list ELSE <<>>

\* variant: the first entry of the list, whatever its coin
FirstEntry(list) == IF list = <<>> THEN <<>> ELSE <<Head(list)>>

\* next((item for item in balance_list if item.get("coin") == "USDT"), {})
RECURSIVE FirstUsdt(_)
FirstUsdt(list) ==
    IF list = <<>> THEN <<>>
    ELSE IF Get(Head(list), "coin", "") = "USDT" THEN <<Head(list)>>
    ELSE FirstUsdt(Tail(list))

\* balance_data: <<>> is the empty dict
BalanceOf(response) ==
    IF response.retCode = 0 /\ response.list # <<>>
    THEN LET found == FirstUsdt(response.list)
             usdt_balance == IF found = <<>> THEN [none |-> ""] ELSE found[1]
         IN  <<[total_equity |-> Get(usdt_balance, "totalEquity", "0"),
                available_balance |-> Get(usdt_balance, "availableToWithdraw", "0"),
                wallet_balance |-> Get(usdt_balance, "walletBalance", "0")]>>
    ELSE <<>>

Snapshot(pos_response, bal_response) ==
    [positions |-> PositionsOf(pos_response),
     balance |-> BalanceOf(bal_response),
     total_unrealised_pnl |-> TotalUnrealisedPnl(PositionsOf(pos_response)),
     last_update |-> "time_zone"]

----------------------------------------------------------------------------
(* Exceptions *)

NoException == [type |-> "", msg |-> <<>>, from |-> ""]

RateLimitFailure(request) ==
    [type |-> "UpdateFailed",
     msg |-> <<"Rate limit exceeded for", request, "request">>,
     from |-> ""]

\* the except clause: every exception of the try block is re-raised wrapped
Wrapped(err) ==
    [type |-> "UpdateFailed",
     msg |-> <<"Error communicating with Bybit API:">> \o err.msg,
     from |-> err.type]

Causes == {"rate_limit", "exception"}

\* how the last ended invocation ended: the exception raised, with the response
\* that made it raise when that response carried no rate-limit signal, or for a
\* return the two responses it aggregated and whether it entered the success
\* reset with failures counted
NoOutcome == [kind |-> "none", cause |-> "", exc |-> NoException,
              trace |-> <<>>, headers |-> <<>>, responses |-> <<>>,
              reset |-> FALSE]

----------------------------------------------------------------------------
(* Config flow: validation of the credentials *)

InvalidApiKey == <<"Invalid", "API", "key">>
InvalidSignature == <<"Invalid", "signature">>

\* raise InvalidAuth("Invalid API credentials")
InvalidAuthError ==
    [type |-> "InvalidAuth", msg |-> <<"Invalid", "API", "credentials">>, from |-> ""]

\* what get_account_info can do: return a response or raise
KeyRejected == [retCode |-> 10003, retMsg |-> InvalidApiKey, list |-> <<>>]
KeyRejectedError == [type |-> "InvalidRequestError",
                     msg |-> <<"Invalid", "API", "key", "(ErrCode:", "10003)">>,
                     from |-> ""]
SignatureError == [type |-> "InvalidRequestError",
                   msg |-> <<"error", "sign!", "Invalid", "signature">>, from |-> ""]

AccountInfoResponses == {OkResponse(<<>>), KeyRejected, DegradedResponse, LimitedByCode}
AccountInfoErrors == {NetworkError, KeyRejectedError, SignatureError}

\* the exception validate_input ends with; <<>> when it returns the title
validate_input(result) ==
    LET raised == IF result.kind = "raise" THEN <<result.err>>
                  ELSE IF result.response.retCode # 0 THEN <<InvalidAuthError>>
                  ELSE <<>>
    IN  IF raised = <<>> THEN <<>>
        ELSE IF \/ Contains(raised[1].msg, InvalidApiKey)
                \/ Contains(raised[1].msg, InvalidSignature)
             THEN <<"InvalidAuth">>
             ELSE <<"CannotConnect">>

\* the except clauses of async_step_user
ErrorsFor(exc) ==
    CASE exc = <<>> -> <<>>
      [] exc = <<"CannotConnect">> -> <<"cannot_connect">>
      [] exc = <<"InvalidAuth">> -> <<"invalid_auth">>
      [] OTHER -> <<"unknown">>

NoValidation == [kind |-> "none"]

FormShown == [step |-> "user", errors |-> <<>>, result |-> NoValidation, exc |-> <<>>]
EntryCreated == [step |-> "entry", errors |-> <<>>, result |-> NoValidation, exc |-> <<>>]

\* async_step_user with user input: validate_input awaits get_account_info
SubmitUser ==
    /\ flow.step = "user"
    /\ flow' = [step |-> "validating", errors |-> <<>>, result |-> NoValidation,
                exc |-> <<>>]
    /\ UNCHANGED coordinatorVars

\* get_account_info is over with `result`: the form again, or the entry
Validated(result) ==
    /\ flow.step = "validating"
    /\ LET exc == validate_input(result)
       IN  flow' = [step |-> IF exc = <<>> THEN "entry" ELSE "user",
                    errors |-> ErrorsFor(exc), result |-> result, exc |-> exc]
    /\ UNCHANGED coordinatorVars

AccountInfoReturn(response) == Validated([kind |-> "return", response |-> response])

AccountInfoRaise(err) == Validated([kind |-> "raise", err |-> err])

----------------------------------------------------------------------------
CoordinatorInit ==
    /\ scan_interval \in Intervals
    /\ _original_interval = scan_interval
    /\ update_interval = scan_interval
    /\ _backoff_delay = 0
    /\ _consecutive_failures = 0
    /\ _rate_limit_warnings = 0
    /\ data = <<>>
    /\ pc = [c \in Slots |-> "idle"]
    /\ positions_response = [c \in Slots |-> <<>>]
    /\ trace = [c \in Slots |-> <<>>]
    /\ outcome = NoOutcome
    /\ excRun = 0
    /\ reported = [k \in Causes |-> <<>>]
    /\ last_request = <<>>
    /\ reconfigured = [c \in Slots |-> FALSE]
    /\ shutdown = FALSE

\* the coordinator of a config entry that has been created
Init == CoordinatorInit /\ flow = EntryCreated

\* the run of Exceeded cycles after a step that leaves the failure counter alone
\* and is not an Exceeded cycle end: unbroken only while there is no run
RunBroken == IF _consecutive_failures = 0 THEN 0 ELSE -1

\* entry of _async_update_data: the backoff sleep, or straight to the positions call
Begin(c) ==
    /\ pc[c] = "idle"
    /\ IF _backoff_delay > 0
       THEN /\ pc' = [pc EXCEPT ![c] = "sleep"]
            /\ trace' = [trace EXCEPT ![c] = <<"sleep">>]
       ELSE /\ pc' = [pc EXCEPT ![c] = "positions"]
            /\ trace' = [trace EXCEPT ![c] = <<"positions">>]
    /\ positions_response' = [positions_response EXCEPT ![c] = <<>>]
    /\ UNCHANGED <<scan_interval, _original_interval, backoffVars,
                   _rate_limit_warnings, data, outcome, excRun, reported,
                   shutdown>>
    /\ last_request' = <<>>
    /\ UNCHANGED flow
    /\ reconfigured' = [reconfigured EXCEPT ![c] = FALSE]

\* asyncio.sleep(self._backoff_delay) returns; the positions call is issued
Wake(c) ==
    /\ pc[c] = "sleep"
    /\ pc' = [pc EXCEPT ![c] = "positions"]
    /\ trace' = [trace EXCEPT ![c] = Append(@, "positions")]
    /\ UNCHANGED <<scan_interval, _original_interval, backoffVars,
                   _rate_limit_warnings, data, positions_response, outcome,
                   excRun, reported, shutdown>>
    /\ last_request' = <<>>
    /\ UNCHANGED flow
    /\ UNCHANGED reconfigured

\* variant: a failed invocation clears the published data
RaiseClearingData(c, cause, exc, responses, headers) ==
    /\ pc' = [pc EXCEPT ![c] = "idle"]
    /\ positions_response' = [positions_response EXCEPT ![c] = <<>>]
    /\ trace' = [trace EXCEPT ![c] = <<>>]
    /\ outcome' = [kind |-> "raise", cause |-> cause, exc |-> exc,
                   trace |-> trace[c], headers |-> headers,
                   responses |-> responses, reset |-> FALSE]
    /\ reported' = [reported EXCEPT ![cause] = <<exc.type>>]
    /\ data' = <<>>
    /\ reconfigured' = [reconfigured EXCEPT ![c] = FALSE]

\* variant: a failed invocation never hands control back to the scheduler
RaiseStopping(c, cause, exc, responses, headers) ==
    /\ pc' = [pc EXCEPT ![c] = "stopped"]
    /\ positions_response' = [positions_response EXCEPT ![c] = <<>>]
    /\ trace' = [trace EXCEPT ![c] = <<>>]
    /\ outcome' = [kind |-> "raise", cause |-> cause, exc |-> exc,
                   trace |-> trace[c], headers |-> headers,
                   responses |-> responses, reset |-> FALSE]
    /\ reported' = [reported EXCEPT ![cause] = <<exc.type>>]
    /\ UNCHANGED data
    /\ reconfigured' = [reconfigured EXCEPT ![c] = FALSE]

\* the invocation ends by raising exc; nothing is returned to the host
Raise(c, cause, exc, responses, headers) ==
    /\ pc' = [pc EXCEPT ![c] = "idle"]
    /\ positions_response' = [positions_response EXCEPT ![c] = <<>>]
    /\ trace' = [trace EXCEPT ![c] = <<>>]
    /\ outcome' = [kind |-> "raise", cause |-> cause, exc |-> exc,
                   trace |-> trace[c], headers |-> headers,
                   responses |-> responses, reset |-> FALSE]
    /\ reported' = [reported EXCEPT ![cause] = <<exc.type>>]
    /\ UNCHANGED data
    /\ reconfigured' = [reconfigured EXCEPT ![c] = FALSE]

\* the invocation ends by returning the snapshot, which the host publishes
Return(c, pos_response, bal_response, headers) ==
    /\ pc' = [pc EXCEPT ![c] = "idle"]
    /\ positions_response' = [positions_response EXCEPT ![c] = <<>>]
    /\ trace' = [trace EXCEPT ![c] = <<>>]
    /\ outcome' = [kind |-> "return", cause |-> "", exc |-> NoException,
                   trace |-> trace[c], headers |-> headers,
                   responses |-> <<pos_response, bal_response>>,
                   reset |-> _consecutive_failures > 0]
    /\ data' = <<Snapshot(pos_response, bal_response)>>
    /\ UNCHANGED reported
    /\ reconfigured' = [reconfigured EXCEPT ![c] = FALSE]

\* variant: the balance call is issued although the positions response was rate-limited
PositionsReturnNoFailFast(c, response, headers) ==
    /\ pc[c] = "positions"
    /\ IF IsRateLimited(response)
       THEN /\ _consecutive_failures < MaxFailures
            /\ _handle_rate_limit_error
            /\ excRun' = IF excRun >= 0 THEN excRun + 1 ELSE -1
       ELSE UNCHANGED <<backoffVars, excRun>>
    /\ pc' = [pc EXCEPT ![c] = "balance"]
    /\ positions_response' = [positions_response EXCEPT ![c] = <<response>>]
    /\ trace' = [trace EXCEPT ![c] = Append(@, "balance")]
    /\ UNCHANGED <<data, outcome, reported>>
    /\ UNCHANGED <<scan_interval, _original_interval, _rate_limit_warnings, shutdown>>
    /\ last_request' = <<>>
    /\ UNCHANGED flow
    /\ UNCHANGED reconfigured

\* get_positions returns `response`
PositionsReturn(c, response, headers) ==
    /\ pc[c] = "positions"
    /\ IF IsRateLimited(response)
       THEN /\ _consecutive_failures < MaxFailures
            /\ _handle_rate_limit_error
            /\ excRun' = IF excRun >= 0 THEN excRun + 1 ELSE -1
            /\ Raise(c, "rate_limit", Wrapped(RateLimitFailure("positions")),
                     Absorbable(response), headers)
       ELSE /\ pc' = [pc EXCEPT ![c] = "balance"]
            /\ positions_response' = [positions_response EXCEPT ![c] = <<response>>]
            /\ trace' = [trace EXCEPT ![c] = Append(@, "balance")]
            /\ UNCHANGED <<backoffVars, data, outcome, excRun, reported,
                           reconfigured>>
    /\ UNCHANGED <<scan_interval, _original_interval, _rate_limit_warnings, shutdown>>
    /\ last_request' = <<>>
    /\ UNCHANGED flow

\* get_positions raises
PositionsRaise(c, err) ==
    /\ pc[c] = "positions"
    /\ Raise(c, "exception", Wrapped(err), <<>>, <<>>)
    /\ excRun' = RunBroken
    /\ UNCHANGED <<scan_interval, _original_interval, backoffVars,
                   _rate_limit_warnings, shutdown>>
    /\ last_request' = <<>>
    /\ UNCHANGED flow

\* variant: a rate-limited balance response still publishes the positions
BalanceReturnPublishing(c, response, headers) ==
    /\ pc[c] = "balance"
    /\ IF IsRateLimited(response)
       THEN /\ _consecutive_failures < MaxFailures
            /\ _handle_rate_limit_error
            /\ excRun' = IF excRun >= 0 THEN excRun + 1 ELSE -1
            /\ pc' = [pc EXCEPT ![c] = "idle"]
            /\ positions_response' = [positions_response EXCEPT ![c] = <<>>]
            /\ trace' = [trace EXCEPT ![c] = <<>>]
            /\ outcome' = [kind |-> "raise", cause |-> "rate_limit",
                           exc |-> Wrapped(RateLimitFailure("balance")),
                           trace |-> trace[c], headers |-> headers,
                           responses |-> Absorbable(response), reset |-> FALSE]
            /\ reported' = [reported EXCEPT !["rate_limit"] = <<"UpdateFailed">>]
            /\ data' = <<Snapshot(positions_response[c][1], response)>>
            /\ reconfigured' = [reconfigured EXCEPT ![c] = FALSE]
       ELSE /\ _reset_backoff_on_success
            /\ excRun' = 0
            /\ Return(c, positions_response[c][1], response, headers)
    /\ UNCHANGED <<scan_interval, _original_interval, _rate_limit_warnings, shutdown>>
    /\ last_request' = <<>>
    /\ UNCHANGED flow

\* get_wallet_balance returns `response`
BalanceReturn(c, response, headers) ==
    /\ pc[c] = "balance"
    /\ IF IsRateLimited(response)
       THEN /\ _consecutive_failures < MaxFailures
            /\ _handle_rate_limit_error
            /\ excRun' = IF excRun >= 0 THEN excRun + 1 ELSE -1
            /\ Raise(c, "rate_limit", Wrapped(RateLimitFailure("balance")),
                     Absorbable(response), headers)
       ELSE /\ _reset_backoff_on_success
            /\ excRun' = 0
            /\ Return(c, positions_response[c][1], response, headers)
    /\ UNCHANGED <<scan_interval, _original_interval, _rate_limit_warnings, shutdown>>
    /\ last_request' = <<>>
    /\ UNCHANGED flow

\* variant: an exception of the balance call resets the backoff
BalanceRaiseResetting(c, err) ==
    /\ pc[c] = "balance"
    /\ Raise(c, "exception", Wrapped(err), <<>>, <<>>)
    /\ excRun' = 0
    /\ _consecutive_failures' = 0
    /\ _backoff_delay' = 0
    /\ UNCHANGED <<scan_interval, _original_interval, update_interval,
                   _rate_limit_warnings, shutdown>>
    /\ last_request' = <<>>
    /\ UNCHANGED flow

\* get_wallet_balance raises
BalanceRaise(c, err) ==
    /\ pc[c] = "balance"
    /\ Raise(c, "exception", Wrapped(err), <<>>, <<>>)
    /\ excRun' = RunBroken
    /\ UNCHANGED <<scan_interval, _original_interval, backoffVars,
                   _rate_limit_warnings, shutdown>>
    /\ last_request' = <<>>
    /\ UNCHANGED flow

\* variant: the reconfiguration cancels the pending backoff
UpdateCancellingBackoff(new_interval) ==
    /\ scan_interval' = new_interval
    /\ _original_interval' = new_interval
    /\ update_interval' = new_interval
    /\ excRun' = 0
    /\ _backoff_delay' = 0
    /\ _consecutive_failures' = 0
    /\ UNCHANGED <<_rate_limit_warnings,
                   data, pc, positions_response, trace, outcome, reported,
                   shutdown>>
    /\ last_request' = <<new_interval>>
    /\ UNCHANGED flow
    /\ reconfigured' = [c \in Slots |-> pc[c] # "idle"]

\* variant: the reconfiguration forgets to move the original interval
UpdateScanOnly(new_interval) ==
    /\ scan_interval' = new_interval
    /\ UNCHANGED _original_interval
    /\ update_interval' = new_interval
    /\ excRun' = RunBroken
    /\ UNCHANGED <<_backoff_delay, _consecutive_failures, _rate_limit_warnings,
                   data, pc, positions_response, trace, outcome, reported,
                   shutdown>>
    /\ last_request' = <<new_interval>>
    /\ UNCHANGED flow
    /\ reconfigured' = [c \in Slots |-> pc[c] # "idle"]

\* variant: the reconfiguration leaves a widened update interval in place
UpdateKeepingWidened(new_interval) ==
    /\ scan_interval' = new_interval
    /\ _original_interval' = new_interval
    /\ update_interval' = Max(update_interval, new_interval)
    /\ excRun' = RunBroken
    /\ UNCHANGED <<_backoff_delay, _consecutive_failures, _rate_limit_warnings,
                   data, pc, positions_response, trace, outcome, reported,
                   shutdown>>
    /\ last_request' = <<new_interval>>
    /\ UNCHANGED flow
    /\ reconfigured' = [c \in Slots |-> pc[c] # "idle"]

update_scan_interval(new_interval) ==
    /\ scan_interval' = new_interval
    /\ _original_interval' = new_interval
    /\ update_interval' = new_interval
    /\ excRun' = RunBroken
    /\ UNCHANGED <<_backoff_delay, _consecutive_failures, _rate_limit_warnings,
                   data, pc, positions_response, trace, outcome, reported,
                   shutdown>>
    /\ last_request' = <<new_interval>>
    /\ UNCHANGED flow
    /\ reconfigured' = [c \in Slots |-> pc[c] # "idle"]

\* _handle_rate_limit_response on response headers; nothing in the cycle calls it
_handle_rate_limit_response(headers) ==
    /\ IF headers # <<>>
       THEN LET remaining == headers[1]
            IN  IF remaining < 10
                THEN /\ _rate_limit_warnings < MaxWarnings
                     /\ _rate_limit_warnings' = _rate_limit_warnings + 1
                     /\ IF remaining < 5 /\ scan_interval < _original_interval * 2
                        THEN update_interval' = Min(_original_interval * 2, 300)
                        ELSE UNCHANGED update_interval
                ELSE IF _rate_limit_warnings > 0
                     THEN /\ _rate_limit_warnings' = 0
                          /\ IF scan_interval # _original_interval
                             THEN update_interval' = _original_interval
                             ELSE UNCHANGED update_interval
                     ELSE UNCHANGED <<_rate_limit_warnings, update_interval>>
       ELSE UNCHANGED <<_rate_limit_warnings, update_interval>>
    /\ excRun' = RunBroken
    /\ UNCHANGED <<scan_interval, _original_interval, _backoff_delay,
                   _consecutive_failures, data, pc, positions_response, trace,
                   outcome, reported, shutdown>>
    /\ last_request' = <<>>
    /\ UNCHANGED flow
    /\ UNCHANGED reconfigured

\* the remaining quota a header may announce, around the thresholds 5 and 10
MonitorHeaders == {<<>>, <<3>>, <<4>>, <<5>>, <<9>>, <<10>>, <<50>>}

\* the scheduler's timer: a new cycle only when none is outstanding
TimerRefresh ==
    /\ ~shutdown
    /\ \A c \in Slots : pc[c] = "idle"
    /\ Begin("timer")

\* a refresh requested from outside the timer
ManualRefresh ==
    /\ ~shutdown
    /\ Begin("manual")

\* the host is asked to stop: cycles in flight finish, none is started
Shutdown ==
    /\ ~shutdown
    /\ shutdown' = TRUE
    /\ UNCHANGED <<scan_interval, _original_interval, backoffVars,
                   _rate_limit_warnings, data, pc, positions_response, trace,
                   outcome, excRun, reported>>
    /\ last_request' = <<>>
    /\ UNCHANGED flow
    /\ UNCHANGED reconfigured

\* one invocation moves on: a sleep ends, a call returns or raises
CycleStep(c) ==
    \/ Wake(c)
    \/ \E r \in PositionsResponses, h \in CycleHeaders : PositionsReturn(c, r, h)
    \/ \E e \in Errors : PositionsRaise(c, e)
    \/ \E r \in BalanceResponses, h \in CycleHeaders : BalanceReturn(c, r, h)
    \/ \E e \in Errors : BalanceRaise(c, e)

Next ==
    \/ TimerRefresh
    \/ ManualRefresh
    \/ \E c \in Slots : Wake(c)
    \/ \E c \in Slots, r \in PositionsResponses, h \in CycleHeaders : PositionsReturn(c, r, h)
    \/ \E c \in Slots, e \in Errors : PositionsRaise(c, e)
    \/ \E c \in Slots, r \in BalanceResponses, h \in CycleHeaders : BalanceReturn(c, r, h)
    \/ \E c \in Slots, e \in Errors : BalanceRaise(c, e)
    \/ \E n \in Intervals : update_scan_interval(n)

\* the coordinator as it is wired: cycles and reconfiguration
Spec == Init /\ [][Next]_vars

\* the coordinator driven by the timer alone: one cycle after the other
NextSeq ==
    \/ TimerRefresh
    \/ CycleStep("timer")
    \/ \E n \in Intervals : update_scan_interval(n)

SpecSeq == Init /\ [][NextSeq]_vars

\* the operations of the backoff controller, the header monitor included
NextOps ==
    \/ TimerRefresh
    \/ CycleStep("timer")
    \/ \E n \in Intervals : update_scan_interval(n)
    \/ \E h \in MonitorHeaders : _handle_rate_limit_response(h)

SpecOps == Init /\ [][NextOps]_vars

\* the values a caller can hand to update_scan_interval: the configured ones,
\* one below MIN_SCAN_INTERVAL and one above MAX_SCAN_INTERVAL
Requests == Intervals \cup {3, 4000}

\* the timer-driven coordinator reconfigured with any requested value
NextReconfig ==
    \/ TimerRefresh
    \/ CycleStep("timer")
    \/ \E n \in Requests : update_scan_interval(n)

SpecReconfig == Init /\ [][NextReconfig]_vars

\* the timer-driven cycle over the richer payloads
NextAgg ==
    \/ TimerRefresh
    \/ Wake("timer")
    \/ \E r \in AggPositionsResponses : PositionsReturn("timer", r, <<>>)
    \/ \E e \in Errors : PositionsRaise("timer", e)
    \/ \E r \in AggBalanceResponses : BalanceReturn("timer", r, <<>>)
    \/ \E e \in Errors : BalanceRaise("timer", e)

SpecAgg == Init /\ [][NextAgg]_vars

\* from the credentials form to the running coordinator
InitSetup == CoordinatorInit /\ flow = FormShown

NextSetup ==
    \/ SubmitUser
    \/ \E r \in AccountInfoResponses : AccountInfoReturn(r)
    \/ \E e \in AccountInfoErrors : AccountInfoRaise(e)
    \/ flow.step = "entry" /\ NextSeq

SpecSetup == InitSetup /\ [][NextSetup]_vars

\* the scheduler under its fairness: the timer fires, sleeps end, calls come
\* back; reconfiguration writes no scheduling state and is left out
NextLive ==
    \/ TimerRefresh
    \/ ManualRefresh
    \/ \E c \in Slots : CycleStep(c)
    \/ Shutdown

LiveSpec ==
    /\ Init
    /\ [][NextLive]_vars
    /\ WF_vars(TimerRefresh)
    /\ \A c \in Slots : WF_vars(CycleStep(c))

----------------------------------------------------------------------------
(* Properties *)

InFlight(c) == pc[c] \in {"sleep", "positions", "balance"}

\* some invocation ends in this step
Ends(c) == InFlight(c) /\ ~InFlight(c)'

Slept(c) == \E i \in 1..Len(trace[c]) : trace[c][i] = "sleep"

\* C1: right after N >= 1 consecutive cycles that each ended with an Exceeded
\* verdict, counted from a state with no failures, the pending delay is
\* min(2^N, 60) and the update interval is max(original * 4, 300).
C1_ExceededRun ==
    excRun >= 1 =>
        /\ _backoff_delay = (IF excRun >= 6 THEN 60 ELSE 2 ^ excRun)
        /\ update_interval =
              (IF _original_interval * 4 >= 300 THEN _original_interval * 4 ELSE 300)

\* six Exceeded cycles in a row: the delay has reached its cap
C1_Witness == excRun = 6 /\ _backoff_delay = 60 /\ update_interval = 300

\* C2: the first cycle that completes with no Exceeded verdict after Exceeded
\* cycles widened the interval sets the update interval back to the original.
C2_RestoredOnSuccess ==
    [][(/\ _consecutive_failures > 0
        /\ update_interval # _original_interval
        /\ \E c \in Slots : Ends(c)
        /\ outcome'.kind = "return")
       => update_interval' = _original_interval]_vars

\* C3: the update interval is never below the original interval, whatever
\* sequence of Exceeded, Approaching, Normal, success and reconfiguration
\* operations has run.
C3_IntervalNotBelowOriginal == update_interval >= _original_interval

\* C4: a fetch attempt that applied the pending delay leaves the delay at 0
\* when it ends without a new Exceeded verdict, on success and on any other
\* failure alike, so that the same delay is not applied again.
C4_DelayConsumed ==
    [][\A c \in Slots :
          (Ends(c) /\ Slept(c) /\ outcome'.cause # "rate_limit")
          => _backoff_delay' = 0]_vars

\* C5: at most one fetch cycle of the coordinator is in flight at any time.
C5_NoOverlap == Cardinality({c \in Slots : InFlight(c)}) <= 1

CallOrders ==
    {<<>>, <<"sleep">>, <<"positions">>, <<"sleep", "positions">>,
     <<"positions", "balance">>, <<"sleep", "positions", "balance">>}

\* C6: in every cycle the positions call comes before the balance call, each
\* is issued at most once, and the balance call is issued only after a
\* positions response that is not rate-limited (retCode 10006 or a message
\* containing "Too many visits").
C6_CallOrder ==
    /\ \A c \in Slots : trace[c] \in CallOrders
    /\ outcome.trace \in CallOrders
    /\ \A c \in Slots :
          pc[c] = "balance" =>
              /\ positions_response[c] # <<>>
              /\ positions_response[c][1].retCode # 10006
              /\ ~Contains(positions_response[c][1].retMsg, <<"Too", "many", "visits">>)
    /\ (outcome.kind = "raise" /\ outcome.exc.msg[2] = "Rate limit exceeded for"
          /\ outcome.exc.msg[3] = "positions")
       => outcome.trace \in {<<"positions">>, <<"sleep", "positions">>}

\* a cycle failed on a rate-limited positions response without a balance call
C6_Witness ==
    /\ outcome.cause = "rate_limit"
    /\ outcome.trace = <<"sleep", "positions">>

\* C7: a cycle failed by an Exceeded verdict and a cycle failed by another
\* exception are never reported as the same kind of failure.
C7_FailureKindsDistinct ==
    (reported["rate_limit"] # <<>> /\ reported["exception"] # <<>>)
    => reported["rate_limit"] # reported["exception"]

\* C8: a cycle that fails, by an Exceeded verdict or by any exception,
\* publishes nothing: the data published before it is the data after it.
C8_FailureKeepsSnapshot ==
    [][((\E c \in Slots : Ends(c)) /\ outcome'.kind = "raise") => data' = data]_vars

\* a cycle has failed while a snapshot was published
C8_Witness == outcome.kind = "raise" /\ data # <<>>

\* C9: after a failed cycle, with no shutdown requested, another fetch cycle
\* is eventually started (or a shutdown is requested first).
C9_FailureDoesNotStop ==
    (outcome.kind = "raise" /\ ~shutdown /\ \A c \in Slots : ~InFlight(c))
    ~> (shutdown \/ \E c \in Slots : InFlight(c))

\* the scheduler is waiting after a failed cycle
C9_Witness ==
    /\ outcome.kind = "raise"
    /\ ~shutdown
    /\ \A c \in Slots : pc[c] = "idle"
    /\ _consecutive_failures > 0

\* C10: a cycle that completes with no Exceeded verdict and whose response
\* announced a remaining quota below 5, while the interval was below twice the
\* original, ends with the interval at min(original * 2, 300) and one more
\* warning counted.
C10_LowQuotaWidens ==
    [][(/\ \E c \in Slots : Ends(c)
        /\ outcome'.kind = "return"
        /\ outcome'.headers # <<>>
        /\ outcome'.headers[1] < 5
        /\ update_interval < _original_interval * 2)
       => /\ update_interval' = Min(_original_interval * 2, 300)
          /\ _rate_limit_warnings' = _rate_limit_warnings + 1]_vars

\* C11: a Normal verdict (remaining quota >= 10) that follows Approaching
\* verdicts resets the warning count to 0 and, when an Approaching verdict had
\* widened the interval to min(original * 2, 300), sets the update interval
\* back to the original.
C11_NormalRestores ==
    [][(/\ _rate_limit_warnings > 0
        /\ _rate_limit_warnings' = 0
        /\ update_interval > _original_interval
        /\ update_interval = Min(_original_interval * 2, 300))
       => update_interval' = _original_interval]_vars

\* C12: immediately after update_scan_interval(n), in any state it is called
\* in, the original interval and the update interval are both n.
C12_ReconfigSetsBoth ==
    last_request # <<>> =>
        /\ _original_interval = last_request[1]
        /\ update_interval = last_request[1]

\* a reconfiguration right after a rate-limit failure widened the interval,
\* with a cycle in flight
C12_Witness ==
    /\ last_request = <<60>>
    /\ _consecutive_failures > 0
    /\ pc["timer"] = "sleep"
    /\ update_interval = 60

\* C13: update_scan_interval clamps its argument, so the original interval is
\* within MIN_SCAN_INTERVAL..MAX_SCAN_INTERVAL in every reachable state.
C13_OriginalWithinLimits ==
    _original_interval \in MIN_SCAN_INTERVAL..MAX_SCAN_INTERVAL

\* C14: a cycle whose two calls complete with no Exceeded verdict while
\* failures are counted ends with the failure count and the pending delay at 0,
\* also when one of the responses is degraded.
C14_SuccessResets ==
    [][\A c \in Slots :
          (Ends(c) /\ outcome'.kind = "return" /\ _consecutive_failures > 0)
          => (_consecutive_failures' = 0 /\ _backoff_delay' = 0)]_vars

\* a cycle that entered the reset with failures counted and aggregated a
\* degraded positions response has just returned
C14_Witness ==
    /\ outcome.kind = "return"
    /\ outcome.reset
    /\ outcome.responses[1] = DegradedResponse
    /\ _consecutive_failures = 0
    /\ _backoff_delay = 0

\* C15: a response with an error status that is not a rate-limit signal never
\* fails the cycle: no invocation raises because of one, and the snapshot of a
\* cycle that received one has an empty positions list (degraded positions
\* response) or an empty balance summary (degraded balance response).
C15_DegradedAbsorbed ==
    /\ outcome.kind = "raise" => outcome.responses = <<>>
    /\ outcome.kind = "return" =>
          /\ Degraded(outcome.responses[1]) => data[1].positions = <<>>
          /\ Degraded(outcome.responses[2]) => data[1].balance = <<>>

\* a cycle returned after two error statuses that still carried a payload
C15_Witness ==
    /\ outcome.kind = "return"
    /\ outcome.responses = <<DegradedWith(<<P1>>), DegradedWith(<<UsdtEntry>>)>>
    /\ data[1].positions = <<>>
    /\ data[1].balance = <<>>

\* the texts that are numbers, in tenths
NumericValue == ("12.5" :> 125) @@ ("0" :> 0) @@ ("-3.0" :> -30)

RECURSIVE SumTenths(_, _)
SumTenths(indices, list) ==
    IF indices = {} THEN 0
    ELSE LET i == CHOOSE j \in indices : TRUE
         IN  NumericValue[list[i].unrealisedPnl] + SumTenths(indices \ {i}, list)

\* the sum of the unrealisedPnl fields of `list` that are numbers
NumericSum(list) ==
    SumTenths({i \in 1..Len(list) :
                  /\ "unrealisedPnl" \in DOMAIN list[i]
                  /\ list[i].unrealisedPnl \in DOMAIN NumericValue}, list)

\* C16: the total unrealised PnL of a published snapshot is the sum of the
\* unrealisedPnl fields of its positions that parse as numbers; a missing,
\* empty or non-numeric field contributes 0 and does not end the sum.
C16_TotalIsNumericSum ==
    data # <<>> => data[1].total_unrealised_pnl = NumericSum(data[1].positions)

\* a cycle returned a list whose first field is not a number
C16_Witness ==
    /\ outcome.kind = "return"
    /\ data[1].positions = <<P5, P4>>
    /\ data[1].total_unrealised_pnl = -30

FieldOrZero(entry, key) == IF key \in DOMAIN entry THEN entry[key] ELSE "0"

SummaryOf(entry) ==
    [total_equity |-> FieldOrZero(entry, "totalEquity"),
     available_balance |-> FieldOrZero(entry, "availableToWithdraw"),
     wallet_balance |-> FieldOrZero(entry, "walletBalance")]

\* C17: after a cycle whose balance response succeeded, the balance summary
\* is taken from a list entry whose coin is USDT; with a list without a USDT
\* entry it is all "0", with an empty list it is absent, and the cycle returns
\* in each case.
C17_SummaryFromUsdt ==
    (outcome.kind = "return" /\ outcome.responses[2].retCode = 0) =>
        LET list == outcome.responses[2].list
            usdt == {i \in 1..Len(list) :
                        "coin" \in DOMAIN list[i] /\ list[i].coin = "USDT"}
        IN  IF list = <<>> THEN data[1].balance = <<>>
            ELSE IF usdt = {}
                 THEN data[1].balance =
                          <<[total_equity |-> "0", available_balance |-> "0",
                             wallet_balance |-> "0"]>>
                 ELSE \E i \in usdt : data[1].balance = <<SummaryOf(list[i])>>

\* a cycle returned a wallet list whose USDT entry is not the first entry
C17_Witness ==
    /\ outcome.kind = "return"
    /\ outcome.responses[2] = OkResponse(<<BtcEntry, UsdtEntry>>)
    /\ data[1].balance[1].total_equity = "1000.0"

\* C18: validate_input ends in InvalidAuth when get_account_info returns a
\* response whose retCode is not 0 or raises an error whose text contains
\* "Invalid API key" or "Invalid signature", in CannotConnect for every other
\* failure, and returns only when retCode is 0.
C18_ValidationClassified ==
    flow.result.kind # "none" =>
        LET result == flow.result
            rejected == result.kind = "return" /\ result.response.retCode # 0
            bad_key == /\ result.kind = "raise"
                       /\ \/ \E i \in 1..(Len(result.err.msg) - 2) :
                                SubSeq(result.err.msg, i, i + 2) = InvalidApiKey
                          \/ \E i \in 1..(Len(result.err.msg) - 1) :
                                SubSeq(result.err.msg, i, i + 1) = InvalidSignature
        IN  flow.exc = IF rejected \/ bad_key THEN <<"InvalidAuth">>
                       ELSE IF result.kind = "raise" THEN <<"CannotConnect">>
                       ELSE <<>>

\* C19: when the positions call of a cycle succeeded and the balance response
\* is rate-limited, the cycle fails as a whole: it raises, the published data
\* stays what it was, the failure count grows by exactly 1 without the success
\* reset, and the update interval becomes max(original * 4, 300).
C19_BalanceExceededFailsCycle ==
    [][\A c \in Slots :
          (pc[c] = "balance" /\ Ends(c) /\ outcome'.cause = "rate_limit")
          => /\ outcome'.kind = "raise"
             /\ data' = data
             /\ _consecutive_failures' = _consecutive_failures + 1
             /\ _backoff_delay' > 0
             /\ update_interval' =
                   (IF _original_interval * 4 >= 300 THEN _original_interval * 4
                    ELSE 300)]_vars

\* the first cycle got its positions and then a rate-limited balance response
C19_Witness ==
    /\ outcome.kind = "raise"
    /\ outcome.cause = "rate_limit"
    /\ outcome.trace = <<"positions", "balance">>
    /\ data = <<>>
    /\ _consecutive_failures = 1
    /\ update_interval = 300

\* C20: update_scan_interval called while a cycle is in flight neither ends
\* nor restarts that cycle, and when the cycle then completes without a
\* rate-limit verdict the update interval is the requested one (the original
\* interval, which the call set).
C20_ReconfigDuringCycle ==
    [][/\ last_request' # <<>> => UNCHANGED <<pc, trace, positions_response>>
       /\ \A c \in Slots :
             (Ends(c) /\ reconfigured[c] /\ outcome'.cause # "rate_limit")
             => update_interval' = _original_interval]_vars

\* C21: in every reachable state the pending delay is a function of the
\* failure count: 0 when the count is 0 and min(2^count, 60) otherwise, hence
\* between 0 and 60 and nonzero exactly when the count is nonzero.
C21_DelayFollowsFailures ==
    /\ _backoff_delay \in 0..60
    /\ (_backoff_delay # 0) <=> (_consecutive_failures # 0)
    /\ _backoff_delay =
          (IF _consecutive_failures = 0 THEN 0
           ELSE IF 2 ^ _consecutive_failures <= 60 THEN 2 ^ _consecutive_failures
           ELSE 60)

\* three rate-limit failures in a row, a cycle asleep on the delay of 8
C21_Witness ==
    /\ _consecutive_failures = 3
    /\ _backoff_delay = 8
    /\ \E c \in Slots : pc[c] = "sleep"

\* C22: in every reachable state scan_interval equals _original_interval, so
\* the guard scan_interval # _original_interval of both restore paths is false.
C22_ScanEqualsOriginal == scan_interval = _original_interval

\* the success reset ran after a rate-limit failure and, its guard being
\* false, left the widened interval in place
C22_Witness ==
    /\ outcome.kind = "return"
    /\ outcome.reset
    /\ scan_interval = _original_interval
    /\ update_interval > _original_interval
    /\ _rate_limit_warnings = 0

schedulingVars ==
    <<_consecutive_failures, _backoff_delay, _rate_limit_warnings,
      _original_interval, update_interval>>

\* C23: a cycle that fails because a remote call raises writes no scheduling
\* state: neither its step that raises nor its steps before it change the
\* failure count, the delay, the warning count, the original interval or the
\* update interval.
C23_ExceptionKeepsScheduling ==
    [][\A c \in Slots :
          /\ (Ends(c) /\ outcome'.cause = "exception") => UNCHANGED schedulingVars
          /\ (pc'[c] # pc[c] /\ InFlight(c)') => UNCHANGED schedulingVars]_vars

\* after two rate-limit failures a cycle slept, got its positions and failed
\* on an exception of the balance call; the count and the delay are kept
C23_Witness ==
    /\ outcome.cause = "exception"
    /\ outcome.trace = <<"sleep", "positions", "balance">>
    /\ _consecutive_failures = 2
    /\ _backoff_delay = 4
    /\ update_interval = 300

\* C24: update_scan_interval writes scan_interval, _original_interval and
\* update_interval only: the failure count, the pending delay, the warning
\* count, the published data and the invocations in flight are unchanged; and
\* every fetch that starts while a delay is pending starts by sleeping, also
\* after a reconfiguration.
C24_ReconfigKeepsBackoff ==
    [][/\ last_request' # <<>> =>
             UNCHANGED <<_consecutive_failures, _backoff_delay,
                         _rate_limit_warnings, data, pc, positions_response>>
       /\ \A c \in Slots :
             (pc[c] = "idle" /\ pc'[c] # "idle" /\ _backoff_delay > 0)
             => pc'[c] = "sleep"]_vars

\* a rate-limit failure widened the interval, a reconfiguration set it back,
\* and the next fetch is asleep on the delay the failure left
C24_Witness ==
    /\ pc["timer"] = "sleep"
    /\ outcome.cause = "rate_limit"
    /\ _consecutive_failures = 1
    /\ _backoff_delay = 2
    /\ update_interval = _original_interval

====
